---------------------------- MODULE Spec2Model ----------------------------
(***************************************************************************)
(* Model of the fxos-certsuite orchestration engine:                       *)
(*   certsuite/harness.py                  run_tests, check_preconditions, *)
(*                                         LogManager, DeviceBackup,       *)
(*                                         TestRunner                      *)
(*   certsuite/device_handler/adb_device_interface.py                      *)
(*                                         ADBDeviceInterface, ADBB2G      *)
(*                                                                         *)
(* Strings of the program are sequences of atoms ("suiteB:group1" is       *)
(* <<"suiteB", ":", "group1">>), so that splitting a token is computed.    *)
(* Python exceptions are the class names "Exception" (any subclass of      *)
(* Exception), "SystemExit" and "KeyboardInterrupt"; "none" is no          *)
(* exception in flight.                                                    *)
(***************************************************************************)
EXTENDS Integers, Sequences, FiniteSets, TLC

\* ------------------------------------------------------------------ bounds
\* longest list of positional TEST tokens on the command line
MaxTokens == 2
\* longest process list the device reports to check_root
MaxProcs == 2

\* --------------------------------------------------------------- constants
\* the suites entry of config.json, in insertion order
ConfigSuites == << <<"suiteA">>, <<"suiteB">> >>

\* the positional tokens a request is drawn from ("suiteC" is not configured)
TokenSet ==
    { <<"suiteA">>, <<"suiteB">>, <<"suiteC">>,
      <<"suiteA", ":", "group1">>, <<"suiteB", ":", "group1">> }

\* rows (pid, name, user) of the device's process list
ProcRows ==
    { <<1, "/sbin/adbd", "root">>, <<1, "/sbin/adbd", "shell">>,
      <<2, "/system/b2g/b2g", "root">> }

RECURSIVE SeqsUpTo(_, _)
SeqsUpTo(S, n) ==
    IF n = 0 THEN { <<>> }
    ELSE LET shorter == SeqsUpTo(S, n - 1)
         IN  shorter \cup { Append(s, x) : s \in shorter, x \in S }

Requests == SeqsUpTo(TokenSet, MaxTokens)
ProcLists == SeqsUpTo(ProcRows, MaxProcs)

BaseExceptions == {"SystemExit", "KeyboardInterrupt"}

\* ---------------------------------------------------- TestRunner.iter_suites
\* index of the first ":" of a token, 0 when it has none
ColonIdx(t) ==
    IF \E i \in 1..Len(t) : t[i] = ":"
    THEN CHOOSE i \in 1..Len(t) : t[i] = ":" /\ \A j \in 1..(i - 1) : t[j] # ":"
    ELSE 0

\* t.split(":", 1)
split(t) ==
    IF ColonIdx(t) = 0 THEN << t >>
    ELSE << SubSeq(t, 1, ColonIdx(t) - 1), SubSeq(t, ColonIdx(t) + 1, Len(t)) >>

\* variant: a token always adds an item of its own
iter_suites_step_no_merge(d, t) ==
    Append(d, [suite |-> split(t)[1],
               groups |-> IF Len(split(t)) = 2 THEN << split(t)[2] >> ELSE <<>>])

\* one iteration of the loop over tests: d is the OrderedDict built so far,
\* kept as the sequence of its (suite, groups) items in insertion order
iter_suites_step(d, t) ==
    LET v == split(t)
        suite == v[1]
        d1 == IF \E i \in 1..Len(d) : d[i].suite = suite
              THEN d
              ELSE Append(d, [suite |-> suite, groups |-> <<>>])
    IN  IF Len(v) = 2
        THEN [i \in 1..Len(d1) |->
                IF d1[i].suite = suite
                THEN [d1[i] EXCEPT !.groups = Append(@, v[2])]
                ELSE d1[i]]
        ELSE d1

RECURSIVE iter_suites_fold(_, _)
iter_suites_fold(d, ts) ==
    IF ts = <<>> THEN d
    ELSE iter_suites_fold(iter_suites_step(d, Head(ts)), Tail(ts))

\* variant: the tokens are taken as they are, with no default
iter_suites_requested_only(args_tests) == iter_suites_fold(<<>>, args_tests)

\* the (suite, groups) pairs iter_suites yields for args.tests
iter_suites(args_tests) ==
    iter_suites_fold(<<>>, IF args_tests = <<>> THEN ConfigSuites ELSE args_tests)

\* variant: the options are read with a default, self.config["suites"].get
InConfig_default(suite) == TRUE

\* whether self.config["suites"][suite] of build_command finds an entry (it
\* raises KeyError when there is none)
InConfig(suite) == \E i \in 1..Len(ConfigSuites) : ConfigSuites[i] = suite

\* ------------------------------------------- ADBDeviceInterface.check_root
\* the row of the first adbd process (the loop breaks there), 0 when none
FirstAdbd(procs) ==
    IF \E i \in 1..Len(procs) : procs[i][2] = "/sbin/adbd"
    THEN CHOOSE i \in 1..Len(procs) :
            /\ procs[i][2] = "/sbin/adbd"
            /\ \A j \in 1..(i - 1) : procs[j][2] # "/sbin/adbd"
    ELSE 0

check_root(procs) ==
    IF FirstAdbd(procs) = 0 THEN FALSE
    ELSE procs[FirstAdbd(procs)][3] = "root"

\* ------------------------------------------------- the precondition checks
\* A check is run against what its collaborators do (env) and gives "True",
\* "False" or the class of the exception it lets escape.

\* harness.check_adb: DeviceManagerADB() connects, or raises DMError (caught)
check_adb(env) ==
    CASE env = "ok" -> "True"
      [] env = "DMError" -> "False"
      [] OTHER -> env

\* harness.install_marionette: AlreadyInstalledException counts as installed,
\* CalledProcessError is caught and gives False
harness_install_marionette(env) ==
    CASE env \in {"ok", "AlreadyInstalled"} -> "True"
      [] env = "CalledProcessError" -> "False"
      [] OTHER -> env

\* harness.check_network: netcfg polled up to 40 times for an address
harness_check_network(env) ==
    CASE env = "ok" -> "True"
      [] env = "down" -> "False"
      [] OTHER -> env

\* harness.check_server, by its result
harness_check_server(env) ==
    CASE env = "ok" -> "True"
      [] env = "unreachable" -> "False"
      [] OTHER -> env

\* the list check_preconditions iterates over
HarnessChecks ==
    << "check_adb", "check_marionette_installed", "check_network", "check_server" >>

HarnessEnv(name) ==
    CASE name = "check_adb" -> {"ok", "DMError", "Exception", "KeyboardInterrupt"}
      [] name = "check_marionette_installed" ->
            {"ok", "AlreadyInstalled", "CalledProcessError", "Exception"}
      [] name = "check_network" -> {"ok", "down", "Exception"}
      [] name = "check_server" -> {"ok", "unreachable", "Exception"}

harness_precondition(name, env) ==
    CASE name = "check_adb" -> check_adb(env)
      [] name = "check_marionette_installed" -> harness_install_marionette(env)
      [] name = "check_network" -> harness_check_network(env)
      [] name = "check_server" -> harness_check_server(env)

\* variant: the call stands outside a try, an exception leaves the pipeline
harness_verdict_reraise(r) ==
    CASE r = "True" -> "passed"
      [] r = "False" -> "failed"
      [] OTHER -> "propagate"

\* try: passed = precondition() / except: passed = False : a bare except
harness_verdict(r) == IF r = "True" THEN "passed" ELSE "failed"

\* variant: a failed check returns to run_tests, which ignores the result
harness_after_check_return(i, passed) ==
    IF ~passed THEN "return"
    ELSE IF i < Len(HarnessChecks) THEN "next" ELSE "exit"

\* what follows check number i: "if not passed: sys.exit(1)", the next
\* check, and after the last one the statements that follow the loop,
\* logger.info("Passed precondition checks") and sys.exit(1)
harness_after_check(i, passed) ==
    IF ~passed THEN "exit"
    ELSE IF i < Len(HarnessChecks) THEN "next" ELSE "exit"

\* ADBDeviceInterface.install_marionette: marionette_install, then
\* self.device.restart(); CalledProcessError is logged and re-raised by the
\* first handler, WaitTimeout gives False
adb_install_marionette(env, restart_env) ==
    CASE env \in {"ok", "AlreadyInstalled"} ->
            IF restart_env = "ok" THEN "True" ELSE "Exception"
      [] env = "WaitTimeout" -> "False"
      [] env = "CalledProcessError" -> "Exception"
      [] OTHER -> env

\* ADBDeviceInterface.ensure_settings returns True or raises
ensure_settings(env) == IF env = "ok" THEN "True" ELSE env

\* ADBDeviceInterface.check_network: wait_for_net, WaitTimeout gives False
adb_check_network(env) ==
    CASE env = "ok" -> "True"
      [] env = "WaitTimeout" -> "False"
      [] OTHER -> env

\* ADBDeviceInterface.check_server, by its result
adb_check_server(env) ==
    CASE env = "ok" -> "True"
      [] env = "unreachable" -> "False"
      [] OTHER -> env

\* the operands of the "and" chain of ADBDeviceInterface.check_preconditions
AdbChecks ==
    << "check_root", "install_marionette", "ensure_settings", "check_network",
       "check_server" >>

AdbEnv(name) ==
    CASE name = "check_root" -> {"ok", "Exception"}
      [] name = "install_marionette" ->
            {"ok", "AlreadyInstalled", "CalledProcessError", "WaitTimeout",
             "KeyboardInterrupt"}
      [] name = "ensure_settings" -> {"ok", "Exception"}
      [] name = "check_network" -> {"ok", "WaitTimeout", "Exception"}
      [] name = "check_server" -> {"ok", "unreachable", "Exception"}

\* outcomes of self.device.restart() inside install_marionette
RestartEnv == {"ok", "WaitTimeout"}

adb_precondition(name, env, restart_env, procs) ==
    CASE name = "check_root" ->
            IF env = "ok" THEN (IF check_root(procs) THEN "True" ELSE "False")
            ELSE env
      [] name = "install_marionette" -> adb_install_marionette(env, restart_env)
      [] name = "ensure_settings" -> ensure_settings(env)
      [] name = "check_network" -> adb_check_network(env)
      [] name = "check_server" -> adb_check_server(env)

\* variant: the chain stands outside a try, an exception leaves the pipeline
adb_verdict_reraise(r) ==
    CASE r = "True" -> "passed"
      [] r = "False" -> "failed"
      [] OTHER -> "propagate"

\* try: passed = ... and ... / except: passed = False : a bare except
adb_verdict(r) == IF r = "True" THEN "passed" ELSE "failed"

\* variant: every operand is evaluated, whatever the earlier ones gave
adb_after_check_no_short_circuit(i, passed) ==
    IF i < Len(AdbChecks) THEN "next"
    ELSE IF passed THEN "return" ELSE "reboot"

\* the "and" chain stops at the first operand that is not true; then
\* "if not passed: self.device.reboot(); sys.exit(1)", else "return True".
\* ("if not self.device: sys.exit(1)" never fires: an ADBB2G object is true.)
adb_after_check(i, passed) ==
    IF ~passed THEN "reboot"
    ELSE IF i < Len(AdbChecks) THEN "next" ELSE "return"

\* ADBB2G.reboot -> wait_for_device_ready(after_first = the reboot command):
\* the command is issued after the first poll, which never succeeds; the
\* preparation before the poll (get_profiles, date, touch) may raise first
RebootEnv == {"ready", "WaitTimeout", "Exception"}

reboot_issues_command(env) == env # "Exception"

reboot_result(env) == IF env = "ready" THEN "none" ELSE "Exception"

\* the status the interpreter exits with: sys.exit(main()), or 1 for an
\* exception that leaves the program (SystemExit(1) included)
ProcessExitStatus(e, ret) == IF e = "none" THEN ret ELSE 1

\* int(error)
int(b) == IF b THEN 1 ELSE 0

\* --------------------------------------------------------- DeviceBackup
\* the backup set of both DeviceBackup classes
backup_dirs == << "/data/local", "/data/b2g/mozilla" >>
backup_files == << "/system/etc/hosts" >>

Range(q) == { q[i] : i \in 1..Len(q) }

\* names of the members a directory of the backup set can hold
Names == {"a"}

\* the content of a file: "X" and "Y" are two different contents
Content == {"absent", "X", "Y"}

\* a directory: absent, or present with its members
NoDir == [exists |-> FALSE, files |-> [n \in Names |-> "absent"]]
DirStates ==
    {NoDir} \cup { [exists |-> TRUE, files |-> f] : f \in [Names -> Content] }

\* the states of the backup set on the device
DeviceStates ==
    [files : [Range(backup_files) -> Content],
     dirs : [Range(backup_dirs) -> DirStates]]

\* nothing staged yet: backup_path is empty
NoBackup ==
    [paths |-> {},
     files |-> [p \in Range(backup_files) |-> "absent"],
     dirs |-> [p \in Range(backup_dirs) |-> NoDir]]

\* whether path p is on the device
Exists(dev, p) ==
    IF p \in Range(backup_files) THEN dev.files[p] # "absent"
    ELSE dev.dirs[p].exists

\* the order in which __enter__ / backup() pull the backup set
PullOrder == backup_dirs \o backup_files

\* getDirectory / getFile / pull of path p into its place under backup_path
pull(dev, bk, p) ==
    IF p \in Range(backup_files)
    THEN [bk EXCEPT !.paths = @ \cup {p}, !.files[p] = dev.files[p]]
    ELSE [bk EXCEPT !.paths = @ \cup {p}, !.dirs[p] = dev.dirs[p]]

\* backup_path after the first n pulls
RECURSIVE Pulled(_, _)
Pulled(dev, n) ==
    IF n = 0 THEN NoBackup ELSE pull(dev, Pulled(dev, n - 1), PullOrder[n])

\* removeFile(remote_path), rm(remote_path)
removeFile(dev, p) == [dev EXCEPT !.files[p] = "absent"]

\* pushFile(local_path, remote_path), push of a file
pushFile(dev, bk, p) == [dev EXCEPT !.files[p] = bk.files[p]]

\* variant: the directory is not removed before it is pushed
removeDir_skipped(dev, p) == dev

\* removeDir(remote_path), rm(remote_path, recursive=True)
removeDir(dev, p) == [dev EXCEPT !.dirs[p] = NoDir]

\* pushDir(local_path, remote_path), push of a directory: the members of the
\* staged directory are copied over, members the device has besides them stay
pushDir(dev, bk, p) ==
    [dev EXCEPT !.dirs[p] =
        [exists |-> TRUE,
         files |-> [n \in Names |->
                      IF bk.dirs[p].files[n] # "absent"
                      THEN bk.dirs[p].files[n]
                      ELSE dev.dirs[p].files[n]]]]

DeviceCall(op, p) == [op |-> op, path |-> p]

\* variant: the directories are restored before the files
RestoreOps_dirs_first(class) ==
    << DeviceCall("remount", "") >>
    \o [i \in 1..(2 * Len(backup_dirs)) |->
          IF i % 2 = 1 THEN DeviceCall("removeDir", backup_dirs[(i + 1) \div 2])
          ELSE DeviceCall("pushDir", backup_dirs[i \div 2])]
    \o [i \in 1..(2 * Len(backup_files)) |->
          IF i % 2 = 1 THEN DeviceCall("removeFile", backup_files[(i + 1) \div 2])
          ELSE DeviceCall("pushFile", backup_files[i \div 2])]
    \o (IF class = "harness.DeviceBackup" THEN << DeviceCall("reboot", "") >>
        ELSE <<>>)

\* the device calls of restore(), in order; harness.DeviceBackup ends with a
\* reboot, the DeviceBackup of adb_device_interface does not
RestoreOps(class) ==
    << DeviceCall("remount", "") >>
    \o [i \in 1..(2 * Len(backup_files)) |->
          IF i % 2 = 1 THEN DeviceCall("removeFile", backup_files[(i + 1) \div 2])
          ELSE DeviceCall("pushFile", backup_files[i \div 2])]
    \o [i \in 1..(2 * Len(backup_dirs)) |->
          IF i % 2 = 1 THEN DeviceCall("removeDir", backup_dirs[(i + 1) \div 2])
          ELSE DeviceCall("pushDir", backup_dirs[i \div 2])]
    \o (IF class = "harness.DeviceBackup" THEN << DeviceCall("reboot", "") >>
        ELSE <<>>)

\* the device after one device call
ApplyOp(dev, bk, c) ==
    CASE c.op = "removeFile" -> removeFile(dev, c.path)
      [] c.op = "pushFile" -> pushFile(dev, bk, c.path)
      [] c.op = "removeDir" -> removeDir(dev, c.path)
      [] c.op = "pushDir" -> pushDir(dev, bk, c.path)
      [] OTHER -> dev

RECURSIVE ApplyOps(_, _, _)
ApplyOps(dev, bk, ops) ==
    IF ops = <<>> THEN dev
    ELSE ApplyOps(ApplyOp(dev, bk, Head(ops)), bk, Tail(ops))

\* ------------------------------------------------ TestRunner.build_command
\* A string is the sequence of its pieces; "/" and every placeholder of a
\* template are pieces of their own.

\* longest groups list build_command is given
MaxGroups == 2

\* the group names a groups list is drawn from
GroupSet == { <<"g1">>, <<"g2">>, <<"dir", "/", "g3">> }
GroupLists == SeqsUpTo(GroupSet, MaxGroups)

\* the directories tempfile.mkdtemp() of run_test returns
TempDirs == { <<"/tmp/tmpA">>, <<"/tmp/tmpB">> }

\* the %(key)s placeholders the templates use
Placeholders == {"%(temp_dir)s", "%(version)s", "%(suites)s"}

\* the key a placeholder names
Key(piece) ==
    CASE piece = "%(temp_dir)s" -> "temp_dir"
      [] piece = "%(version)s" -> "version"
      [] piece = "%(suites)s" -> "suites"

\* the entries a suite can have in config["suites"]; run_args, common_args
\* and extra_files are optional
SuiteOptions ==
    { [cmd |-> <<"run_x">>,
       run_args |-> << <<"--out=", "%(temp_dir)s">> >>,
       common_args |-> <<>>],
      [cmd |-> <<"run_y">>,
       run_args |-> << <<"--version=", "%(version)s">> >>,
       common_args |-> << <<"--dir=", "%(temp_dir)s">>, <<"-v">> >>,
       extra_files |-> << <<"%(temp_dir)s", "/", "extra.log">> >>],
      [cmd |-> <<"run_z">>],
      [cmd |-> <<"run_w">>,
       run_args |-> << <<"--suites=", "%(suites)s">> >>] }

\* the configurations load_config returns, every suite with the same entry
Configs ==
    { [version |-> <<"2.0">>,
       suites |-> [s \in Range(ConfigSuites) |-> o]] : o \in SuiteOptions }

ExampleConfig ==
    [version |-> <<"2.0">>,
     suites |-> [s \in Range(ConfigSuites) |->
                   [cmd |-> <<"run_x">>,
                    run_args |-> << <<"--out=", "%(temp_dir)s">> >>,
                    common_args |-> <<>>]]]

\* suite_opts.get(key, [])
get(suite_opts, key) ==
    IF key \in DOMAIN suite_opts THEN suite_opts[key] ELSE <<>>

\* subn: a copy of the configuration without "suites", with temp_dir set
subn_of(conf, dir) ==
    [k \in (DOMAIN conf \ {"suites"}) \cup {"temp_dir"} |->
        IF k = "temp_dir" THEN dir ELSE conf[k]]

\* item.replace("/", "-")
replace(item) ==
    [i \in 1..Len(item) |-> IF item[i] = "/" THEN "-" ELSE item[i]]

\* sep.join(items)
RECURSIVE join(_, _)
join(sep, items) ==
    IF items = <<>> THEN <<>>
    ELSE IF Len(items) = 1 THEN items[1]
    ELSE items[1] \o << sep >> \o join(sep, Tail(items))

\* item % subn raises KeyError: a placeholder names a key subn does not have
format_raises(item, subn) ==
    \E i \in 1..Len(item) :
        item[i] \in Placeholders /\ Key(item[i]) \notin DOMAIN subn

\* item % subn: every placeholder is replaced by the value of its key
RECURSIVE format(_, _)
format(item, subn) ==
    IF item = <<>> THEN <<>>
    ELSE (IF Head(item) \in Placeholders THEN subn[Key(Head(item))]
          ELSE << Head(item) >>) \o format(Tail(item), subn)

\* [item % subn for item in items]
format_all(items, subn) == [i \in 1..Len(items) |-> format(items[i], subn)]

\* "%s/%s_structured%s.log" % (temp_dir, suite, "_".join(...))
log_name_of(suite, groups, dir) ==
    dir \o << "/" >> \o suite \o << "_structured" >>
        \o join("_", [i \in 1..Len(groups) |-> replace(groups[i])])
        \o << ".log" >>

\* '--include=%s' % g for g in groups
include_args(groups) ==
    [i \in 1..Len(groups) |-> << "--include=" >> \o groups[i]]

\* variant: the include flags are added after the configured arguments
cmd_extend_includes_last(first, includes, run_args, common_args) ==
    first \o run_args \o common_args \o includes

\* the three cmd.extend calls that follow the log arguments, in their order
cmd_extend(first, includes, run_args, common_args) ==
    first \o includes \o run_args \o common_args

\* what build_command(suite, groups, temp_dir) returns, or the KeyError it
\* raises for a suite without entry or a placeholder without value
build_command(conf, suite, groups, dir) ==
    IF suite \notin DOMAIN conf.suites
    THEN [raised |-> "KeyError", cmd |-> <<>>, output_files |-> <<>>,
          log_name |-> <<>>]
    ELSE LET suite_opts == conf.suites[suite]
             subn == subn_of(conf, dir)
             name == log_name_of(suite, groups, dir)
             templates == get(suite_opts, "run_args")
                            \o get(suite_opts, "common_args")
                            \o get(suite_opts, "extra_files")
         IN  IF \E i \in 1..Len(templates) : format_raises(templates[i], subn)
             THEN [raised |-> "KeyError", cmd |-> <<>>, output_files |-> <<>>,
                   log_name |-> <<>>]
             ELSE [raised |-> "none",
                   cmd |-> cmd_extend(
                       << suite_opts.cmd, << "--log-raw=" >> \o name,
                          << "--log-mach=-" >> >>,
                       include_args(groups),
                       format_all(get(suite_opts, "run_args"), subn),
                       format_all(get(suite_opts, "common_args"), subn)),
                   output_files |->
                       << name >>
                         \o format_all(get(suite_opts, "extra_files"), subn),
                   log_name |-> name]

\* ------------------------------------------------------------------- state
VARIABLES
    entry,            \* what was started: "run_tests", "check_preconditions"
                      \* (the ADBDeviceInterface method) or "suite_loop"
    args_tests,       \* args.tests, the positional tokens
    processes,        \* the device's process list
    pc,               \* position in the code
    exc,              \* the exception in flight, "none" when there is none
    error,            \* run_tests' local error
    pre_idx,          \* index of the precondition check that runs next
    precond_log,      \* the checks executed so far, with their results
    precond_runs,     \* calls of a check_preconditions
    reboot_calls,     \* calls of self.device.reboot()
    reboot_cmds,      \* "reboot" commands sent to the device
    output_zipfile,   \* run_tests' output_zipfile is set
    zip_state,        \* LogManager.zip_file: "none", "open", "closed"
    summary_written,  \* report.html was written to the archive
    zip_log,          \* what was done to the archive, in order
    reported,         \* the "Results saved in" line was written
    suites,           \* the (suite, groups) pairs iter_suites yields
    idx,              \* index in suites of the current suite
    alive,            \* indexes of the suites whose process is running
    trace,            \* start/end of suite processes and restore calls, in order
    run_calls,        \* the (suite, groups) arguments of the run_suite calls
    subsuite_results, \* LogManager.subsuite_results, as the is_pass flags
    suite_raised,     \* per run_suite call that raised: the exception
    run_test_log,     \* per run_test call: how its try block and its kill ended
    restore_calls,    \* completed or failed calls of DeviceBackup.restore
    staging,          \* DeviceBackup.backup_path: "none", "present", "removed"
    rmtree_calls,     \* calls of shutil.rmtree(self.backup_path)
    exit_status,      \* the process exit status, -1 while running
    raised,           \* the exception that left the entry point, or "none"
    device,           \* the device's copy of every path of the backup set
    device0,          \* device as it was when the snapshot was acquired
    backup,           \* the staged copies under DeviceBackup.backup_path
    dev_ops,          \* the device calls of the latest DeviceBackup.restore
    now,              \* time.time()
    timeout,          \* the timeout argument
    polling_interval, \* poll_wait's polling_interval
    after_first,      \* poll_wait's after_first: "none", "callback" or the
                      \* shell command the callback sends
    func,             \* poll_wait's func: "predicate", "b2g_stopped" or
                      \* "prefs_modified"
    wait,             \* the wait argument of start and restart
    wait_polling_interval, \* ADBB2G._wait_polling_interval
    start_time,       \* poll_wait's local start_time
    current_time,     \* poll_wait's local current_time
    ran_first,        \* poll_wait's local ran_first
    times,            \* the modification times prefs_modified has seen
    true_at,          \* the time from which what func looks at holds, -1 if
                      \* it never does
    pw_log,           \* evaluations, callbacks and shell commands, in order
    overran,          \* some poll ended later than one interval after it began
    todo,             \* the calls that follow the current one
    in_use,           \* the trial ports that are taken on the host
    reachable,        \* the trial ports of the host the device can reach
    has_curl,         \* the device has a curl command
    port_idx,         \* index in Ports of the port check_server is at
    servers,          \* the ports on which a probe server is running
    srv_log,          \* what check_server did, in order
    after_finally,    \* what check_server does once its finally clause is done
    result,           \* what check_server returned, "none" while it has not
    config,           \* the configuration load_config returned
    cmd_suite,        \* build_command's suite argument
    cmd_groups,       \* build_command's groups argument
    temp_dir,         \* build_command's temp_dir argument
    cmd,              \* the argument vector build_command returned
    output_files,     \* the output file list build_command returned
    log_name          \* the raw log path build_command returned

inputVars == << entry, args_tests, processes >>
ctlVars == << pc, exc, error, exit_status, raised >>
preVars == << pre_idx, precond_log, precond_runs, reboot_calls, reboot_cmds >>
logVars == << output_zipfile, zip_state, summary_written, zip_log, reported >>
loopVars == << suites, idx, alive, trace, run_calls, subsuite_results,
               suite_raised, run_test_log, restore_calls, staging,
               rmtree_calls >>
bkVars == << device, device0, backup, dev_ops >>
pwVars == << now, timeout, polling_interval, after_first, func, wait,
            wait_polling_interval, start_time, current_time, ran_first, times,
            true_at, pw_log, overran, todo >>
srvVars == << in_use, reachable, has_curl, port_idx, servers, srv_log,
             after_finally, result >>
cmdVars == << config, cmd_suite, cmd_groups, temp_dir, cmd, output_files,
             log_name >>
partVars == << bkVars, pwVars, srvVars, cmdVars >>
vars == << inputVars, ctlVars, preVars, logVars, loopVars, partVars >>

\* the backup set is not followed: no snapshot, every path absent
BackupIdle ==
    /\ device = [files |-> NoBackup.files, dirs |-> NoBackup.dirs]
    /\ device0 = device
    /\ backup = NoBackup
    /\ dev_ops = <<>>

\* no poll_wait call is followed
PollIdle ==
    /\ now = 0 /\ timeout = 0 /\ polling_interval = 1
    /\ after_first = "none" /\ func = "predicate" /\ wait = TRUE
    /\ wait_polling_interval = 1
    /\ start_time = 0 /\ current_time = 0 /\ ran_first = FALSE
    /\ times = <<>> /\ true_at = -1 /\ pw_log = <<>> /\ overran = FALSE
    /\ todo = <<>>

\* no check_server call is followed
ServerIdle ==
    /\ in_use = {} /\ reachable = {} /\ has_curl = TRUE
    /\ port_idx = 1 /\ servers = {} /\ srv_log = <<>>
    /\ after_finally = "none" /\ result = "none"

\* no build_command call is followed
CommandIdle ==
    /\ config = ExampleConfig
    /\ cmd_suite = <<>> /\ cmd_groups = <<>> /\ temp_dir = <<>>
    /\ cmd = <<>> /\ output_files = <<>> /\ log_name = <<>>

\* the state when run_tests (harness.py, main) or
\* ADBDeviceInterface.check_preconditions is entered
InitCommon ==
    /\ exc = "none" /\ error = FALSE
    /\ pre_idx = 1 /\ precond_log = <<>> /\ precond_runs = 0
    /\ reboot_calls = 0 /\ reboot_cmds = 0
    /\ output_zipfile = FALSE /\ zip_state = "none"
    /\ summary_written = FALSE /\ zip_log = <<>> /\ reported = FALSE
    /\ suites = <<>> /\ idx = 0 /\ alive = {} /\ trace = <<>>
    /\ run_calls = <<>> /\ subsuite_results = <<>> /\ suite_raised = <<>>
    /\ run_test_log = <<>>
    /\ restore_calls = 0 /\ staging = "none" /\ rmtree_calls = 0
    /\ exit_status = -1 /\ raised = "none"

Init ==
    /\ InitCommon /\ BackupIdle /\ PollIdle /\ ServerIdle /\ CommandIdle
    /\ \/ entry = "run_tests" /\ pc = "run_tests"
          /\ args_tests \in Requests /\ processes = <<>>
       \/ entry = "check_preconditions" /\ pc = "adb_check_preconditions"
          /\ args_tests = <<>> /\ processes \in ProcLists

\* ----------------------------------------------------- harness.run_tests
\* with LogManager() as log_manager: __enter__ opens the archive and run.log;
\* output_zipfile = log_manager.zip_path; setup_logging; log_metadata
LogManager_enter ==
    /\ pc = "run_tests"
    /\ zip_state' = "open"
    /\ output_zipfile' = TRUE
    /\ pc' = "check_preconditions"
    /\ UNCHANGED << partVars, inputVars, exc, error, exit_status, raised, preVars,
                    summary_written, zip_log, reported, loopVars >>

\* check_preconditions(config) is called
harness_check_preconditions ==
    /\ pc = "check_preconditions"
    /\ precond_runs' = precond_runs + 1
    /\ pre_idx' = 1
    /\ pc' = "precondition"
    /\ UNCHANGED << partVars, inputVars, exc, error, exit_status, raised, precond_log,
                    reboot_calls, reboot_cmds, logVars, loopVars >>

\* one iteration of the loop over the preconditions
harness_precondition_step ==
    /\ pc = "precondition"
    /\ \E env \in HarnessEnv(HarnessChecks[pre_idx]) :
         LET name == HarnessChecks[pre_idx]
             r == harness_precondition(name, env)
             v == harness_verdict(r)
             nxt == harness_after_check(pre_idx, v = "passed")
         IN  /\ precond_log' = Append(precond_log, [check |-> name, result |-> r])
             /\ CASE v = "propagate" ->
                       /\ exc' = r /\ pc' = "LogManager_exit"
                       /\ pre_idx' = pre_idx
                  [] v # "propagate" /\ nxt = "next" ->
                       /\ exc' = exc /\ pc' = "precondition"
                       /\ pre_idx' = pre_idx + 1
                  [] v # "propagate" /\ nxt = "exit" ->
                       /\ exc' = "SystemExit" /\ pc' = "LogManager_exit"
                       /\ pre_idx' = pre_idx
                  [] v # "propagate" /\ nxt = "return" ->
                       /\ exc' = exc /\ pc' = "DeviceBackup_enter"
                       /\ pre_idx' = pre_idx
    /\ UNCHANGED << partVars, inputVars, error, exit_status, raised, precond_runs,
                    reboot_calls, reboot_cmds, logVars, loopVars >>

\* an entry of zip_log: a member written to the archive (k is the suite it
\* belongs to, 0 for the run's own members), or the closing of the archive
Written(name, k) == [op |-> "write", name |-> name, k |-> k]
Closed == [op |-> "close", name |-> "", k |-> 0]

\* variant: the archive is closed by a plain call after the writes
zip_closed_unless_raised(e) == e = "none"

\* whether self.zip_file.__exit__ is called when the statements before it in
\* LogManager.__exit__ ended with exception e ("none": they returned): the
\* call stands in a finally clause nested in a finally clause
zip_closed(e) == TRUE

\* LogManager.__exit__: run.log is closed and written to the archive, then
\* the summary report; then (finally) run.log is unlinked and (finally) the
\* archive closed.  env is the first statement that raises: the write of
\* run.log (or the closing of the file before it), add_summary_report, or
\* os.unlink.  An exception raised here replaces the one in flight.
LogManager_exit ==
    /\ pc = "LogManager_exit"
    /\ \E env \in {"ok", "write_error", "summary_error", "unlink_error"} :
         LET written ==
                 CASE env = "write_error" -> <<>>
                   [] env = "summary_error" -> << Written("run.log", 0) >>
                   [] OTHER -> << Written("run.log", 0), Written("report.html", 0) >>
             e == IF env = "ok" THEN "none" ELSE "Exception"
         IN  /\ summary_written' = (Len(written) = 2)
             /\ exc' = IF e = "none" THEN exc ELSE e
             /\ IF zip_closed(e)
                THEN /\ zip_state' = "closed"
                     /\ zip_log' = zip_log \o written \o << Closed >>
                ELSE /\ zip_state' = zip_state
                     /\ zip_log' = zip_log \o written
    /\ pc' = "run_tests_except"
    /\ UNCHANGED << partVars, inputVars, error, exit_status, raised, preVars,
                    output_zipfile, reported, loopVars >>

\* the except clauses that close run_tests' try, and what follows them
run_tests_return ==
    /\ pc = "run_tests_except"
    /\ IF exc \in BaseExceptions
       THEN /\ raised' = exc
            /\ error' = error
            /\ reported' = reported
            /\ exit_status' = ProcessExitStatus(exc, 0)
       ELSE /\ raised' = "none"
            /\ error' = (error \/ exc # "none")
            /\ reported' = output_zipfile
            /\ exit_status' = ProcessExitStatus("none", int(error'))
    /\ exc' = "none"
    /\ pc' = "done"
    /\ UNCHANGED << partVars, inputVars, preVars, output_zipfile, zip_state,
                    summary_written, zip_log, loopVars >>

\* ------------------------------ ADBDeviceInterface.check_preconditions
\* one operand of the "and" chain inside the try
adb_precondition_step ==
    /\ pc = "adb_check_preconditions"
    /\ \E env \in AdbEnv(AdbChecks[pre_idx]), restart_env \in RestartEnv :
         LET name == AdbChecks[pre_idx]
             r == adb_precondition(name, env, restart_env, processes)
             v == adb_verdict(r)
             nxt == adb_after_check(pre_idx, v = "passed")
         IN  /\ precond_log' = Append(precond_log, [check |-> name, result |-> r])
             /\ precond_runs' = IF pre_idx = 1 THEN precond_runs + 1
                                ELSE precond_runs
             /\ CASE v = "propagate" ->
                       /\ raised' = r /\ pc' = "done"
                       /\ exit_status' = ProcessExitStatus(r, 0)
                       /\ pre_idx' = pre_idx
                  [] v # "propagate" /\ nxt = "next" ->
                       /\ raised' = raised /\ pc' = "adb_check_preconditions"
                       /\ exit_status' = exit_status
                       /\ pre_idx' = pre_idx + 1
                  [] v # "propagate" /\ nxt = "reboot" ->
                       /\ raised' = raised /\ pc' = "adb_reboot"
                       /\ exit_status' = exit_status
                       /\ pre_idx' = pre_idx
                  [] v # "propagate" /\ nxt = "return" ->
                       /\ raised' = raised /\ pc' = "done"
                       /\ exit_status' = ProcessExitStatus("none", 0)
                       /\ pre_idx' = pre_idx
    /\ UNCHANGED << partVars, inputVars, exc, error, reboot_calls, reboot_cmds, logVars,
                    loopVars >>

\* if not passed: self.device.reboot(); sys.exit(1)
adb_reboot ==
    /\ pc = "adb_reboot"
    /\ \E env \in RebootEnv :
         /\ reboot_calls' = reboot_calls + 1
         /\ reboot_cmds' = IF reboot_issues_command(env) THEN reboot_cmds + 1
                           ELSE reboot_cmds
         /\ raised' = IF reboot_result(env) = "none" THEN "SystemExit"
                      ELSE reboot_result(env)
         /\ exit_status' = ProcessExitStatus(raised', 0)
    /\ pc' = "done"
    /\ UNCHANGED << partVars, inputVars, exc, error, pre_idx, precond_log, precond_runs,
                    logVars, loopVars >>

\* ------------------------------------------- the suite loop of run_tests
\* variant: no except clause around runner.run_suite
run_tests_catches_none(e) == FALSE

\* the handler of the try around runner.run_suite: "except:" is a bare
\* except, it catches every exception class
run_tests_catches(e) == TRUE

\* variant: run_test has no finally clause
proc_kill_skipped(running, k) == running

\* run_test's "finally: try: proc.kill() except: pass" on a launched process
proc_kill(running, k) == running \ {k}

\* variant: device.restore() stands in an else clause
restore_called_unless_raised(e) == e = "none"

\* whether device.restore() is called after a run_suite call that ended with
\* exception e ("none": it returned): the call stands in a finally clause
restore_called(e) == TRUE

\* variant: an error of device.restore() is caught in the loop
after_restore_caught(e, r) == e

\* the exception in flight once device.restore() in the finally clause has
\* ended as r: its own when it raised, else the one that was in flight
after_restore(e, r) == IF r = "ok" THEN e ELSE r

\* variant: the cleanup is a plain call after the block
with_calls_exit_unless_raised(e) == e = "none"

\* whether DeviceBackup.__exit__ is called when the with block is left with
\* exception e in flight ("none": left normally): a with statement always
\* calls it
with_calls_exit(e) == TRUE

\* variant: proc.kill() stands in the finally clause with no try around it
run_test_leaves_with_kill_error(orig, kill_exc) ==
    IF kill_exc # "none" THEN kill_exc ELSE orig

\* the exception that leaves run_test ("none": it returns its result), orig
\* being how the try block ended and kill_exc what proc.kill() raised in the
\* finally clause: "except: pass" drops kill_exc
run_test_leaves(orig, kill_exc) == orig

\* whether run_test logs "Error running suite": the handler is "except
\* Exception", which the BaseException classes pass by
run_test_logs(orig) == orig = "Exception"

\* what proc.kill() can raise, by the state of proc when the finally clause
\* runs: "unbound" (build_command or ProcessHandler(cmd) raised, the name is
\* not bound: NameError), "not_started" (proc.run() raised), "running"
\* (proc.wait() raised), "finished"
KillEnv(proc) ==
    CASE proc = "unbound" -> {"Exception"}
      [] proc = "running" -> {"none"}
      [] OTHER -> {"none", "Exception"}

\* the entry of run_test_log for a run_test call on suite number k
RunTest(k, proc, orig, kill_exc) ==
    [k |-> k, proc |-> proc, orig |-> orig, kill |-> kill_exc,
     logged |-> run_test_logs(orig),
     out |-> run_test_leaves(orig, kill_exc)]

\* what build_command, ProcessHandler(cmd) and proc.run() can do for a suite
StartEnv(suite) ==
    IF InConfig(suite) THEN {"launched", "build_error", "launch_error"}
    ELSE {"build_error"}

\* an entry of trace: res is how the call ended
Event(e, k, res) == [ev |-> e, k |-> k, res |-> res]

\* the exception the current run_suite call ended with, "none" if it returned
LastRaised ==
    IF suite_raised # <<>> /\ suite_raised[Len(suite_raised)].k = idx
    THEN suite_raised[Len(suite_raised)].exc
    ELSE "none"

\* the state of the loop after run_suite number idx raised e: the handler,
\* then the finally clause
SuiteRaised(e) ==
    /\ suite_raised' = Append(suite_raised, [k |-> idx, exc |-> e])
    /\ IF run_tests_catches(e)
       THEN error' = TRUE /\ exc' = "none"
       ELSE error' = error /\ exc' = e
    /\ pc' = "finally"

\* with DeviceBackup() as device: __enter__ makes the staging directory and
\* pulls the backup set into it; runner = TestRunner(args, config); the for
\* statement starts the iter_suites generator
DeviceBackup_enter ==
    /\ pc = "DeviceBackup_enter"
    /\ staging' = "present"
    /\ \E env \in {"ok", "Exception"} :
         IF env = "ok"
         THEN /\ suites' = iter_suites(args_tests)
              /\ idx' = 1
              /\ exc' = exc
              /\ pc' = "for_suite"
         ELSE /\ suites' = suites
              /\ idx' = idx
              /\ exc' = env
              /\ pc' = "LogManager_exit"
    /\ UNCHANGED << partVars, inputVars, error, exit_status, raised, preVars, logVars,
                    alive, trace, run_calls, subsuite_results, suite_raised,
                    run_test_log, restore_calls, rmtree_calls >>

\* runner.run_suite(suite, groups, log_manager) up to proc.run(): the
\* temporary directory, build_command, ProcessHandler(cmd), the launch
run_suite_start ==
    /\ pc = "for_suite"
    /\ idx <= Len(suites)
    /\ run_calls' = Append(run_calls, suites[idx])
    /\ \E env \in StartEnv(suites[idx].suite) :
         IF env = "launched"
         THEN /\ alive' = alive \cup {idx}
              /\ trace' = Append(trace, Event("start", idx, "ok"))
              /\ pc' = "proc_wait"
              /\ UNCHANGED << suite_raised, run_test_log, error, exc >>
         ELSE LET proc == IF env = "build_error" THEN "unbound"
                          ELSE "not_started"
              IN  \E kill_exc \in KillEnv(proc) :
                    LET r == RunTest(idx, proc, "Exception", kill_exc)
                    IN  /\ run_test_log' = Append(run_test_log, r)
                        /\ SuiteRaised(r.out)
                        /\ UNCHANGED << alive, trace >>
    /\ UNCHANGED << partVars, inputVars, exit_status, raised, preVars, logVars, suites,
                    idx, subsuite_results, restore_calls, staging,
                    rmtree_calls >>

\* proc.wait() and run_test's finally clause
proc_wait ==
    /\ pc = "proc_wait"
    /\ \E env \in {"finished", "Exception", "KeyboardInterrupt"} :
         LET proc == IF env = "finished" THEN "finished" ELSE "running"
             orig == IF env = "finished" THEN "none" ELSE env
         IN  \E kill_exc \in KillEnv(proc) :
               LET r == RunTest(idx, proc, orig, kill_exc)
               IN  /\ alive' = proc_kill(IF env = "finished" THEN alive \ {idx}
                                         ELSE alive, idx)
                   /\ trace' = IF idx \in alive' THEN trace
                               ELSE Append(trace, Event("end", idx, env))
                   /\ run_test_log' = Append(run_test_log, r)
                   /\ IF r.out = "none"
                      THEN /\ pc' = "run_suite_results"
                           /\ UNCHANGED << suite_raised, error, exc >>
                      ELSE SuiteRaised(r.out)
    /\ UNCHANGED << partVars, inputVars, exit_status, raised, preVars, logVars, suites,
                    idx, run_calls, subsuite_results, restore_calls, staging,
                    rmtree_calls >>

\* the rest of run_suite: log_manager.add_file for every result file, then
\* log_manager.add_subsuite_report, which appends the parsed results and
\* writes a report for a suite that did not pass
run_suite_results ==
    /\ pc = "run_suite_results"
    /\ \E env \in {"pass", "fail", "add_file_error", "report_error"} :
         /\ subsuite_results' =
               CASE env = "pass" -> Append(subsuite_results, TRUE)
                 [] env \in {"fail", "report_error"} ->
                       Append(subsuite_results, FALSE)
                 [] OTHER -> subsuite_results
         /\ zip_log' = zip_log \o
               CASE env = "add_file_error" -> <<>>
                 [] env = "fail" -> << Written("result_files", idx),
                                       Written("report.html", idx) >>
                 [] OTHER -> << Written("result_files", idx) >>
         /\ IF env \in {"pass", "fail"}
            THEN pc' = "finally" /\ UNCHANGED << suite_raised, error, exc >>
            ELSE SuiteRaised("Exception")
    /\ UNCHANGED << partVars, inputVars, exit_status, raised, preVars, output_zipfile,
                    zip_state, summary_written, reported, suites, idx, alive,
                    trace, run_calls, run_test_log, restore_calls, staging,
                    rmtree_calls >>

\* finally: device.restore(); then the next suite, or, with an exception in
\* flight, out of the loop
restore ==
    /\ pc = "finally"
    /\ IF restore_called(LastRaised)
       THEN \E env \in {"ok", "Exception", "KeyboardInterrupt"} :
              /\ restore_calls' = restore_calls + 1
              /\ trace' = Append(trace, Event("restore", idx, env))
              /\ exc' = after_restore(exc, env)
       ELSE UNCHANGED << restore_calls, trace, exc >>
    /\ IF exc' = "none"
       THEN idx' = idx + 1 /\ pc' = "for_suite"
       ELSE idx' = idx /\ pc' = "DeviceBackup_exit"
    /\ UNCHANGED << partVars, inputVars, error, exit_status, raised, preVars, logVars,
                    suites, alive, run_calls, subsuite_results, suite_raised,
                    run_test_log, staging, rmtree_calls >>

\* the generator is exhausted: the for loop ends
for_suite_end ==
    /\ pc = "for_suite"
    /\ idx > Len(suites)
    /\ pc' = "DeviceBackup_exit"
    /\ UNCHANGED << partVars, inputVars, exc, error, exit_status, raised, preVars,
                    logVars, loopVars >>

\* DeviceBackup.__exit__: shutil.rmtree(self.backup_path); then
\* "if error: logger.critical(...)" and out of the LogManager block
DeviceBackup_exit ==
    /\ pc = "DeviceBackup_exit"
    /\ IF with_calls_exit(exc)
       THEN staging' = "removed" /\ rmtree_calls' = rmtree_calls + 1
       ELSE UNCHANGED << staging, rmtree_calls >>
    /\ pc' = "LogManager_exit"
    /\ UNCHANGED << partVars, inputVars, exc, error, exit_status, raised, preVars,
                    logVars, suites, idx, alive, trace, run_calls,
                    subsuite_results, suite_raised, run_test_log,
                    restore_calls >>

\* ----------------------------------------------------------- specifications
\* run_tests as main() calls it, and ADBDeviceInterface.check_preconditions
Next ==
    \/ LogManager_enter
    \/ harness_check_preconditions
    \/ harness_precondition_step
    \/ LogManager_exit
    \/ run_tests_return
    \/ adb_precondition_step
    \/ adb_reboot

Spec == Init /\ [][Next]_vars

\* The block "with DeviceBackup() as device:" of run_tests and what follows
\* it, taken on its own: it starts in the state in which check_preconditions
\* has returned (the archive is open, the four checks have passed).  Under
\* Spec that state is not reached, because check_preconditions always ends
\* in sys.exit(1); Next therefore holds none of the loop's actions.
InitLoop ==
    /\ entry = "suite_loop" /\ pc = "DeviceBackup_enter"
    /\ args_tests \in Requests /\ processes = <<>>
    /\ exc = "none" /\ error = FALSE
    /\ pre_idx = Len(HarnessChecks)
    /\ precond_log = [i \in 1..Len(HarnessChecks) |->
                        [check |-> HarnessChecks[i], result |-> "True"]]
    /\ precond_runs = 1
    /\ reboot_calls = 0 /\ reboot_cmds = 0
    /\ output_zipfile = TRUE /\ zip_state = "open"
    /\ summary_written = FALSE /\ zip_log = <<>> /\ reported = FALSE
    /\ suites = <<>> /\ idx = 0 /\ alive = {} /\ trace = <<>>
    /\ run_calls = <<>> /\ subsuite_results = <<>> /\ suite_raised = <<>>
    /\ run_test_log = <<>>
    /\ restore_calls = 0 /\ staging = "none" /\ rmtree_calls = 0
    /\ exit_status = -1 /\ raised = "none"
    /\ BackupIdle /\ PollIdle /\ ServerIdle /\ CommandIdle

NextLoop ==
    \/ DeviceBackup_enter
    \/ run_suite_start
    \/ proc_wait
    \/ run_suite_results
    \/ restore
    \/ for_suite_end
    \/ DeviceBackup_exit
    \/ LogManager_exit
    \/ run_tests_return

LoopSpec == InitLoop /\ [][NextLoop]_vars

\* Every way into and out of the LogManager block of run_tests: the run as
\* main() starts it together with the block of the suite loop.
InitRun == Init \/ InitLoop

NextRun ==
    \/ LogManager_enter
    \/ harness_check_preconditions
    \/ harness_precondition_step
    \/ adb_precondition_step
    \/ adb_reboot
    \/ DeviceBackup_enter
    \/ run_suite_start
    \/ proc_wait
    \/ run_suite_results
    \/ restore
    \/ for_suite_end
    \/ DeviceBackup_exit
    \/ LogManager_exit
    \/ run_tests_return

RunSpec == InitRun /\ [][NextRun]_vars

\* ------------------------------------------------ DeviceBackup on its own
\* most restore calls on one snapshot
MaxRounds == 2

DeviceBackupClasses == {"harness.DeviceBackup", "adb.DeviceBackup"}

\* a DeviceBackup is about to be entered on a device in any state
InitBackup ==
    /\ InitCommon
    /\ entry \in DeviceBackupClasses /\ pc = "Backup_enter"
    /\ args_tests = <<>> /\ processes = <<>>
    /\ device \in DeviceStates /\ device0 = device
    /\ backup = NoBackup /\ dev_ops = <<>>
    /\ PollIdle /\ ServerIdle /\ CommandIdle

\* __enter__ / backup(): mkdtemp, then one pull per path of the backup set;
\* n pulls succeed, pull number n + 1 raises (it does when the path is not
\* on the device) and the exception leaves __enter__
Backup_enter ==
    /\ pc = "Backup_enter"
    /\ staging' = "present"
    /\ \E n \in 0..Len(PullOrder) :
         /\ \A i \in 1..n : Exists(device, PullOrder[i])
         /\ backup' = Pulled(device, n)
         /\ IF n = Len(PullOrder)
            THEN pc' = "Backup_suite" /\ raised' = raised
            ELSE pc' = "done" /\ raised' = "Exception"
    /\ UNCHANGED << cmdVars,
                    pwVars, srvVars, inputVars, exc, error, exit_status, preVars, logVars,
                    suites, idx, alive, trace, run_calls, subsuite_results,
                    suite_raised, run_test_log, restore_calls, rmtree_calls,
                    device, device0, dev_ops >>

\* a suite runs: it can leave the backup set in any state
Backup_suite ==
    /\ pc = "Backup_suite"
    /\ restore_calls < MaxRounds
    /\ device' \in DeviceStates
    /\ pc' = "Backup_restore"
    /\ UNCHANGED << cmdVars,
                    pwVars, srvVars, inputVars, exc, error, exit_status, raised, preVars,
                    logVars, loopVars, device0, backup, dev_ops >>

\* restore(): n of its device calls succeed; call number n + 1, if there is
\* one, raises and the exception leaves restore
Backup_restore ==
    /\ pc = "Backup_restore"
    /\ restore_calls' = restore_calls + 1
    /\ \E n \in 0..Len(RestoreOps(entry)) :
         /\ dev_ops' = SubSeq(RestoreOps(entry), 1, n)
         /\ device' = ApplyOps(device, backup, dev_ops')
         /\ IF n = Len(RestoreOps(entry))
            THEN pc' = "Backup_suite" /\ exc' = exc
            ELSE pc' = "Backup_exit" /\ exc' = "Exception"
    /\ UNCHANGED << cmdVars,
                    pwVars, srvVars, inputVars, error, exit_status, raised, preVars, logVars,
                    suites, idx, alive, trace, run_calls, subsuite_results,
                    suite_raised, run_test_log, staging, rmtree_calls,
                    device0, backup >>

\* __exit__ / cleanup(): shutil.rmtree(self.backup_path), when the block is
\* left after the last suite or by an exception
Backup_exit ==
    /\ pc \in {"Backup_suite", "Backup_exit"}
    /\ staging' = "removed"
    /\ rmtree_calls' = rmtree_calls + 1
    /\ raised' = exc
    /\ exc' = "none"
    /\ pc' = "done"
    /\ UNCHANGED << cmdVars,
                    pwVars, srvVars, inputVars, error, exit_status, preVars, logVars, suites,
                    idx, alive, trace, run_calls, subsuite_results,
                    suite_raised, run_test_log, restore_calls, bkVars >>

NextBackup ==
    \/ Backup_enter
    \/ Backup_suite
    \/ Backup_restore
    \/ Backup_exit

BackupSpec == InitBackup /\ [][NextBackup]_vars

\* ------------------------------------------------- poll_wait and ADBB2G
\* longest polling interval, longest timeout, and longest time one poll (an
\* evaluation of func and the callback) takes, in clock ticks
MaxInterval == 2
MaxTimeout == 3
MaxDur == 3

max(a, b) == IF a >= b THEN a ELSE b

\* an entry of pw_log
Ev(e, arg) == [ev |-> e, arg |-> arg]

\* variant: the loop runs while current_time - start_time <= timeout
loop_continues_le(current, start, limit) == current - start <= limit

\* the condition of poll_wait's while loop
loop_continues(current, start, limit) == current - start < limit

\* variant: the callback is not guarded by ran_first
calls_after_first_unguarded(ran, callback) == callback # "none"

\* "if not ran_first and after_first is not None" of poll_wait
calls_after_first(ran, callback) == ~ran /\ callback # "none"

\* the modification time "ls -l" shows for the prefs file at time t: the
\* file is rewritten at true_at
mtime(t) == IF true_at >= 0 /\ t >= true_at THEN 1 ELSE 0

\* what listing the prefs file can do inside prefs_modified's inner(); the
\* other predicates list nothing
ListingEnv(f) == IF f = "prefs_modified" THEN {"ok", "error"} ELSE {"ok"}

\* times after one call of inner(): the first time seen goes to times[0],
\* every later one to times[1]; a listing that raises leaves times alone
inner_times(seen, t, ls) ==
    CASE ls = "error" -> seen
      [] seen = <<>> -> << mtime(t) >>
      [] OTHER -> << seen[1], mtime(t) >>

\* variant: inner() compares the time it sees with the time the file was
\* touched to, from its first call on
func_value_since_touch(f, seen, t, ls) ==
    IF f = "prefs_modified"
    THEN ls = "ok" /\ mtime(t) # 0
    ELSE true_at >= 0 /\ t >= true_at

\* the value of func() called at time t.  b2g_stopped and the predicate of a
\* plain poll_wait call are truthy from true_at on; inner() is falsy when
\* the listing raises and on the call that stores times[0], and later truthy
\* when the time it sees differs from times[0]
func_value(f, seen, t, ls) ==
    IF f = "prefs_modified"
    THEN ls = "ok" /\ seen # <<>> /\ mtime(t) # seen[1]
    ELSE true_at >= 0 /\ t >= true_at

\* what the callback writes to pw_log: itself, and the shell command it
\* sends when it is one of ADBB2G's lambdas
CallbackEvents(callback) ==
    IF callback = "callback" THEN << Ev("after_first", callback) >>
    ELSE << Ev("after_first", callback), Ev("shell", callback) >>

\* variant: the callback runs before func is called
iteration_events_callback_first(value, calls, callback) ==
    (IF calls THEN CallbackEvents(callback) ELSE <<>>)
    \o << Ev("func", IF value THEN "truthy" ELSE "falsy") >>

\* what one iteration of poll_wait's loop writes to pw_log: func() is
\* called, then, when its value was falsy and calls holds, the callback
iteration_events(value, calls, callback) ==
    << Ev("func", IF value THEN "truthy" ELSE "falsy") >>
    \o (IF ~value /\ calls THEN CallbackEvents(callback) ELSE <<>>)

\* variant: start sends "start b2g" itself whatever wait is
start_sends_directly_always(w) == TRUE

\* whether start sends "start b2g" itself, without polling: "if wait: ...
\* else: self.shell_bool(...)"
start_sends_directly(w) == ~w

ADBB2GCalls == {"ADBB2G.stop", "ADBB2G.start", "ADBB2G.restart", "ADBB2G.reboot"}

\* a poll_wait call with any arguments, or a call of one of ADBB2G's methods
InitPoll ==
    /\ InitCommon /\ BackupIdle /\ ServerIdle /\ CommandIdle
    /\ args_tests = <<>> /\ processes = <<>>
    /\ now = 0 /\ start_time = 0 /\ current_time = 0 /\ ran_first = FALSE
    /\ times = <<>> /\ true_at = -1 /\ pw_log = <<>> /\ overran = FALSE
    /\ todo = <<>>
    /\ timeout \in 0..MaxTimeout
    /\ \/ /\ entry = "poll_wait" /\ pc = "poll_wait"
          /\ polling_interval \in 1..MaxInterval
          /\ after_first \in {"none", "callback"}
          /\ func = "predicate" /\ wait = TRUE /\ wait_polling_interval = 1
       \/ /\ entry \in ADBB2GCalls /\ pc = entry
          /\ polling_interval = 1 /\ after_first = "none"
          /\ func = "predicate"
          /\ wait \in (IF entry \in {"ADBB2G.start", "ADBB2G.restart"}
                       THEN BOOLEAN ELSE {TRUE})
          /\ wait_polling_interval \in 1..MaxInterval

\* where control goes when the current call returns
Return ==
    IF todo = <<>> THEN pc' = "done" /\ todo' = todo
    ELSE pc' = Head(todo) /\ todo' = Tail(todo)

\* ADBB2G.stop up to its poll_wait call: "stop b2g" is sent, then
\* poll_wait(b2g_stopped, timeout=timeout)
ADBB2G_stop ==
    /\ pc = "ADBB2G.stop"
    /\ pw_log' = Append(pw_log, Ev("shell", "stop b2g"))
    /\ func' = "b2g_stopped" /\ after_first' = "none"
    /\ polling_interval' = 1
    /\ pc' = "poll_wait"
    /\ UNCHANGED << cmdVars,
                    bkVars, srvVars, inputVars, exc, error, exit_status, raised,
                    preVars, logVars, loopVars, now, timeout, wait,
                    wait_polling_interval, start_time, current_time,
                    ran_first, times, true_at, overran, todo >>

\* wait_for_device_ready(timeout, after_first=callback) up to its poll_wait
\* call: the profile is looked up and the prefs file touched, which can
\* raise; then poll_wait(prefs_modified(), timeout, wait_polling_interval,
\* after_first)
wait_for_device_ready(callback) ==
    \E env \in {"ok", "Exception"} :
       IF env = "ok"
       THEN /\ func' = "prefs_modified" /\ after_first' = callback
            /\ polling_interval' = wait_polling_interval
            /\ times' = <<>>
            /\ pc' = "poll_wait"
            /\ UNCHANGED << raised, todo >>
       ELSE /\ raised' = env /\ pc' = "done"
            /\ UNCHANGED << func, after_first, polling_interval, times, todo >>

\* ADBB2G.start
ADBB2G_start ==
    /\ pc = "ADBB2G.start"
    /\ IF start_sends_directly(wait)
       THEN /\ pw_log' = Append(pw_log, Ev("shell", "start b2g"))
            /\ Return
            /\ UNCHANGED << raised, func, after_first, polling_interval, times >>
       ELSE /\ wait_for_device_ready("start b2g")
            /\ pw_log' = pw_log
    /\ UNCHANGED << cmdVars,
                    bkVars, srvVars, inputVars, exc, error, exit_status, preVars,
                    logVars, loopVars, now, timeout, wait,
                    wait_polling_interval, start_time, current_time,
                    ran_first, true_at, overran >>

\* variant: restart starts b2g before it stops it
restart_calls_start_first == << "ADBB2G.start", "ADBB2G.stop" >>

\* the calls restart makes, in order
restart_calls == << "ADBB2G.stop", "ADBB2G.start" >>

\* ADBB2G.restart: self.stop(...), then self.start(...)
ADBB2G_restart ==
    /\ pc = "ADBB2G.restart"
    /\ todo' = Tail(restart_calls) \o todo
    /\ pc' = Head(restart_calls)
    /\ UNCHANGED << cmdVars,
                    bkVars, srvVars, inputVars, exc, error, exit_status, raised,
                    preVars, logVars, loopVars, now, timeout,
                    polling_interval, after_first, func, wait,
                    wait_polling_interval, start_time, current_time,
                    ran_first, times, true_at, pw_log, overran >>

\* ADBB2G.reboot
ADBB2G_reboot ==
    /\ pc = "ADBB2G.reboot"
    /\ wait_for_device_ready("reboot")
    /\ UNCHANGED << cmdVars,
                    bkVars, srvVars, inputVars, exc, error, exit_status, preVars,
                    logVars, loopVars, now, timeout, wait,
                    wait_polling_interval, start_time, current_time,
                    ran_first, true_at, pw_log, overran >>

\* poll_wait up to its loop: the two readings of the clock.  What func looks
\* at holds from some time on, now or later, or never.
poll_wait_enter ==
    /\ pc = "poll_wait"
    /\ start_time' = now /\ current_time' = now /\ ran_first' = FALSE
    /\ true_at' \in {-1} \cup (now..(now + MaxTimeout))
    /\ pw_log' = Append(pw_log, Ev("poll_wait", func))
    /\ pc' = "while"
    /\ UNCHANGED << cmdVars,
                    bkVars, srvVars, inputVars, exc, error, exit_status, raised,
                    preVars, logVars, loopVars, now, timeout,
                    polling_interval, after_first, func, wait,
                    wait_polling_interval, times, overran, todo >>

\* one iteration of the loop: func() is called; a truthy value is returned;
\* otherwise the callback runs if it has not, then poll_wait sleeps until one
\* polling interval after the iteration began, or not at all when that time
\* has passed, and reads the clock.  dur is the time func and the callback
\* take.
poll_wait_iteration ==
    /\ pc = "while"
    /\ loop_continues(current_time, start_time, timeout)
    /\ \E ls \in ListingEnv(func), dur \in 0..MaxDur :
         LET value == func_value(func, times, now, ls)
             sleep == max(current_time + polling_interval - (now + dur), 0)
         IN  /\ times' = IF func = "prefs_modified"
                         THEN inner_times(times, now, ls) ELSE times
             /\ pw_log' = pw_log \o
                   iteration_events(value,
                                    calls_after_first(ran_first, after_first),
                                    after_first)
             /\ IF value
                THEN /\ now' = now + dur
                     /\ Return
                     /\ UNCHANGED << ran_first, current_time, overran >>
                ELSE /\ ran_first' = TRUE
                     /\ now' = now + dur + sleep
                     /\ current_time' = now'
                     /\ overran' = (overran \/
                                      now + dur > current_time + polling_interval)
                     /\ UNCHANGED << pc, todo >>
    /\ UNCHANGED << cmdVars,
                    bkVars, srvVars, inputVars, exc, error, exit_status, raised,
                    preVars, logVars, loopVars, timeout, polling_interval,
                    after_first, func, wait, wait_polling_interval,
                    start_time, true_at >>

\* the loop ends: raise WaitTimeout(), which no caller catches
poll_wait_timeout ==
    /\ pc = "while"
    /\ ~loop_continues(current_time, start_time, timeout)
    /\ raised' = "WaitTimeout"
    /\ pc' = "done"
    /\ UNCHANGED << cmdVars,
                    bkVars, srvVars, inputVars, exc, error, exit_status, preVars,
                    logVars, loopVars, pwVars >>

NextPoll ==
    \/ ADBB2G_stop
    \/ ADBB2G_start
    \/ ADBB2G_restart
    \/ ADBB2G_reboot
    \/ poll_wait_enter
    \/ poll_wait_iteration
    \/ poll_wait_timeout

PollSpec == InitPoll /\ [][NextPoll]_vars

\* ------------------------------------------------------------ check_server
\* the trial ports, in the order of the for loop
Ports == << 8000, 8001 >>

CheckServers == {"ADBDeviceInterface.check_server", "harness.check_server"}

\* an entry of srv_log: what was done for which port, and how it ended
Probe(what, port, res) == [what |-> what, port |-> port, res |-> res]

\* what WebTestHttpd(host, port, routes) and server.start() do when the
\* ports in taken are bound by another process
ServerStartEnv(port, taken) ==
    IF port \in taken THEN {"address in use"} ELSE {"ok"}

\* what the device's request to the probe server on a port does.  ADB: the
\* shell has no curl, or curl fetches the page, or it fails (ADBError) or
\* hangs until the shell times out ("Exception": not an ADBError).
\* harness: m.navigate loads the page or raises.
RequestEnv(check, port, reach, curl) ==
    CASE check = "ADBDeviceInterface.check_server" /\ ~curl ->
            {"curl: not found"}
      [] port \in reach -> {"ok"}
      [] check = "ADBDeviceInterface.check_server" -> {"ADBError", "Exception"}
      [] OTHER -> {"Exception"}

\* variant: a port that cannot be served is skipped
on_start_error_next_port(port) == "continue"

\* the handler of the try around the start of the server: it logs and
\* returns False
on_start_error(port) == "return False"

\* variant: the test for "curl: not found" is missing
on_request_error_curl_fails(check, e) ==
    CASE e = "ok" -> "continue"
      [] check = "harness.check_server" -> "return False"
      [] e \in {"ADBError", "curl: not found"} -> "return False"
      [] OTHER -> "raise"

\* how the try around the device's request is left.  ADB: "except
\* mozdevice.ADBError" breaks out of the loop when the message holds "curl:
\* not found" and returns False otherwise; any other exception passes the
\* handler by.  harness: a bare except returns False.
on_request_error(check, e) ==
    CASE e = "ok" -> "continue"
      [] check = "harness.check_server" -> "return False"
      [] e = "curl: not found" -> "break"
      [] e = "ADBError" -> "return False"
      [] OTHER -> "raise"

\* harness.check_server has a Marionette session to start first; the loop
\* over the ports is the same in both
InitServer ==
    /\ InitCommon /\ BackupIdle /\ PollIdle /\ CommandIdle
    /\ args_tests = <<>> /\ processes = <<>>
    /\ entry \in CheckServers
    /\ in_use \in SUBSET Range(Ports) /\ reachable \in SUBSET Range(Ports)
    /\ has_curl \in BOOLEAN
    /\ port_idx = 1 /\ servers = {} /\ srv_log = <<>>
    /\ after_finally = "none" /\ result = "none"
    /\ pc = IF entry = "harness.check_server" THEN "start_session"
            ELSE "for_port"

\* check_server returns value v
ServerReturns(v) == result' = v /\ pc' = "done"

\* harness.check_server up to the loop: m.start_session() (any exception:
\* return False), wait_for_b2g_ready (IOError: return False; anything else
\* leaves check_server)
check_server_session ==
    /\ pc = "start_session"
    /\ \E env \in {"ok", "session_error", "IOError", "Exception"} :
         /\ srv_log' = Append(srv_log, Probe("session", 0, env))
         /\ CASE env = "ok" -> pc' = "for_port" /\ UNCHANGED << result, raised >>
              [] env = "Exception" ->
                    raised' = env /\ pc' = "done" /\ UNCHANGED result
              [] OTHER -> ServerReturns("False") /\ UNCHANGED raised
    /\ UNCHANGED << cmdVars, bkVars, pwVars, inputVars, exc, error, exit_status,
                    preVars, logVars, loopVars, in_use, reachable, has_curl,
                    port_idx, servers, after_finally >>

\* the first try of the loop body: the server for the port is made and
\* started
server_start ==
    /\ pc = "for_port"
    /\ port_idx <= Len(Ports)
    /\ \E env \in ServerStartEnv(Ports[port_idx], in_use) :
         /\ srv_log' = Append(srv_log, Probe("start", Ports[port_idx], env))
         /\ IF env = "ok"
            THEN /\ servers' = servers \cup {Ports[port_idx]}
                 /\ pc' = "request"
                 /\ UNCHANGED << port_idx, result >>
            ELSE /\ servers' = servers
                 /\ IF on_start_error(Ports[port_idx]) = "continue"
                    THEN /\ port_idx' = port_idx + 1 /\ pc' = "for_port"
                         /\ UNCHANGED result
                    ELSE /\ ServerReturns("False")
                         /\ UNCHANGED port_idx
    /\ UNCHANGED << cmdVars, bkVars, pwVars, inputVars, exc, error, exit_status,
                    raised, preVars, logVars, loopVars, in_use, reachable,
                    has_curl, after_finally >>

\* the second try: the device requests the probe server's page
server_request ==
    /\ pc = "request"
    /\ \E env \in RequestEnv(entry, Ports[port_idx], reachable, has_curl) :
         /\ srv_log' = Append(srv_log, Probe("request", Ports[port_idx], env))
         /\ after_finally' = on_request_error(entry, env)
    /\ pc' = "finally"
    /\ UNCHANGED << cmdVars, bkVars, pwVars, inputVars, exc, error, exit_status,
                    raised, preVars, logVars, loopVars, in_use, reachable,
                    has_curl, port_idx, servers, result >>

\* the finally clause of the second try: (harness) m.go_back(), which can
\* raise, then server.stop(); then what the try was left for
server_finally ==
    /\ pc = "finally"
    /\ entry \in CheckServers
    /\ \E env \in (IF entry = "harness.check_server" THEN {"ok", "Exception"}
                    ELSE {"ok"}) :
         IF env = "ok"
         THEN /\ servers' = servers \ {Ports[port_idx]}
              /\ srv_log' = Append(srv_log, Probe("stop", Ports[port_idx], "ok"))
              /\ CASE after_finally = "continue" ->
                        /\ port_idx' = port_idx + 1 /\ pc' = "for_port"
                        /\ UNCHANGED << result, raised >>
                   [] after_finally = "break" ->
                        /\ ServerReturns("True")
                        /\ UNCHANGED << port_idx, raised >>
                   [] after_finally = "return False" ->
                        /\ ServerReturns("False")
                        /\ UNCHANGED << port_idx, raised >>
                   [] OTHER ->
                        /\ raised' = "Exception" /\ pc' = "done"
                        /\ UNCHANGED << port_idx, result >>
         ELSE /\ srv_log' = Append(srv_log, Probe("go_back", Ports[port_idx], env))
              /\ raised' = env /\ pc' = "done"
              /\ UNCHANGED << servers, port_idx, result >>
    /\ after_finally' = "none"
    /\ UNCHANGED << cmdVars, bkVars, pwVars, inputVars, exc, error, exit_status,
                    preVars, logVars, loopVars, in_use, reachable, has_curl >>

\* the loop is over: return True
server_return ==
    /\ pc = "for_port"
    /\ port_idx > Len(Ports)
    /\ ServerReturns("True")
    /\ UNCHANGED << cmdVars, bkVars, pwVars, inputVars, exc, error, exit_status,
                    raised, preVars, logVars, loopVars, in_use, reachable,
                    has_curl, port_idx, servers, srv_log, after_finally >>

NextServer ==
    \/ check_server_session
    \/ server_start
    \/ server_request
    \/ server_finally
    \/ server_return

ServerSpec == InitServer /\ [][NextServer]_vars

\* ----------------------------------------------- build_command on its own
\* build_command is about to be called for a suite, a groups list and a
\* temporary directory, with one of the configurations
InitCommand ==
    /\ InitCommon /\ BackupIdle /\ PollIdle /\ ServerIdle
    /\ args_tests = <<>> /\ processes = <<>>
    /\ entry = "build_command" /\ pc = "build_command"
    /\ config \in Configs
    /\ cmd_suite \in Range(ConfigSuites) \cup { <<"suiteC">> }
    /\ cmd_groups \in GroupLists
    /\ temp_dir \in TempDirs
    /\ cmd = <<>> /\ output_files = <<>> /\ log_name = <<>>

\* cmd, output_files, log_name = self.build_command(suite, groups, temp_dir)
TestRunner_build_command ==
    /\ pc = "build_command"
    /\ LET r == build_command(config, cmd_suite, cmd_groups, temp_dir)
       IN  /\ cmd' = r.cmd
           /\ output_files' = r.output_files
           /\ log_name' = r.log_name
           /\ raised' = r.raised
    /\ pc' = "done"
    /\ UNCHANGED << bkVars, pwVars, srvVars, inputVars, exc, error,
                    exit_status, preVars, logVars, loopVars, config,
                    cmd_suite, cmd_groups, temp_dir >>

NextCommand == TestRunner_build_command

CommandSpec == InitCommand /\ [][NextCommand]_vars

\* ------------------------------------------------------------------ claims
Last(q) == q[Len(q)]

\* a precondition check has been executed and did not return True
PreconditionFailed ==
    \E i \in 1..Len(precond_log) : precond_log[i].result # "True"

\* the most recent check ended by raising
PreconditionRaised ==
    /\ precond_log # <<>>
    /\ Last(precond_log).result \notin {"True", "False"}

AfterTheLoop == {"LogManager_exit", "run_tests_except", "done"}

C1_Request == << <<"suiteA">>, <<"suiteB", ":", "group1">> >>

\* C1: for the request ["suiteA", "suiteB:group1"] on a device that passes
\* every precondition check, a finished run has run the preconditions once,
\* run_suite twice (suiteA with no groups, suiteB with [group1]) and restore
\* twice, and its exit status is 0 when no suite raised.
C1_EndToEnd ==
    ( /\ entry = "run_tests" /\ pc = "done"
      /\ args_tests = C1_Request
      /\ ~PreconditionFailed )
    => /\ precond_runs = 1
       /\ run_calls = << [suite |-> <<"suiteA">>, groups |-> <<>>],
                         [suite |-> <<"suiteB">>, groups |-> << <<"group1">> >>] >>
       /\ restore_calls = 2
       /\ (suite_raised = <<>> => exit_status = 0)

\* C2: a run_suite call that raises is followed by a restore call before
\* anything else of the loop happens, the run's exit status is then not 0,
\* and, unless a restore call itself raised, every suite of the request is
\* still run.
C2_SuiteFailureIsolated ==
    \A j \in 1..Len(suite_raised) :
        LET k == suite_raised[j].k
        IN  /\ (pc # "finally" \/ idx # k)
                => \E p \in 1..Len(trace) : trace[p].ev = "restore" /\ trace[p].k = k
            /\ Len(run_calls) > k
                => \E p \in 1..Len(trace) : trace[p] = Event("restore", k, "ok")
            /\ pc = "done"
                => /\ exit_status # 0
                   /\ (\A p \in 1..Len(trace) :
                          trace[p].ev = "restore" => trace[p].res = "ok")
                         => Len(run_calls) = Len(suites)

C2_Witness ==
    /\ pc = "done" /\ raised = "none" /\ exit_status = 1
    /\ Len(suites) = 2 /\ Len(run_calls) = 2 /\ restore_calls = 2
    /\ Len(suite_raised) = 1 /\ suite_raised[1].k = 1
    /\ \E p \in 1..Len(trace) : trace[p] = Event("start", 1, "ok")

\* C3: once a precondition check of run_tests has failed, control never
\* reaches the snapshot or a suite, and the run ends with a status that is
\* not 0.
C3_PreconditionFailureStopsRun ==
    (entry = "run_tests" /\ PreconditionFailed)
    => /\ pc \in AfterTheLoop
       /\ staging = "none" /\ run_calls = <<>> /\ alive = {} /\ trace = <<>>
       /\ pc = "done" => exit_status # 0

C3_Witness ==
    /\ entry = "run_tests" /\ pc = "done" /\ PreconditionFailed
    /\ Last(precond_log) = [check |-> "check_network", result |-> "False"]
    /\ exit_status = 1 /\ staging = "none" /\ run_calls = <<>>

\* check_root was executed and returned False
RootAbsent ==
    /\ entry = "check_preconditions"
    /\ precond_log # <<>>
    /\ precond_log[1] = [check |-> "check_root", result |-> "False"]

\* C4: when check_root returns False, ADBDeviceInterface.check_preconditions
\* executes no later check and calls self.device.reboot() exactly once, which
\* sends the reboot command at most once.
C4_RootAbsentStopsPipeline ==
    RootAbsent
    => /\ Len(precond_log) = 1
       /\ pc \in {"adb_reboot", "done"}
       /\ reboot_calls = (IF pc = "done" THEN 1 ELSE 0)
       /\ reboot_cmds <= reboot_calls

C4_Witness ==
    /\ RootAbsent /\ pc = "done" /\ ~check_root(processes)
    /\ FirstAdbd(processes) # 0
    /\ reboot_calls = 1 /\ reboot_cmds = 1 /\ raised = "SystemExit"

\* C5: when a run of a precondition pipeline has ended after a failed check,
\* the failed check is the last one executed, one reboot was issued, the exit
\* status is not 0 and the pipeline ran once.
C5_FirstFailureReboots ==
    (pc = "done" /\ PreconditionFailed)
    => /\ \A i \in 1..(Len(precond_log) - 1) : precond_log[i].result = "True"
       /\ reboot_calls = 1
       /\ exit_status # 0
       /\ precond_runs = 1

\* C6: a precondition check that raises is handled as one that returned
\* False: the exception does not leave the pipeline, no later check runs, and
\* the pipeline goes on to its failure exit (in run_tests sys.exit(1), so that
\* SystemExit is what reaches the LogManager; in ADBDeviceInterface the
\* reboot, then the exit).
C6_RaisedCheckIsFailure ==
    PreconditionRaised
    => /\ entry = "run_tests"
            => /\ pc \in AfterTheLoop
               /\ pc = "LogManager_exit" => exc = "SystemExit"
               /\ pc = "done"
                    => /\ exit_status = 1
                       /\ ~error => raised = "SystemExit"
       /\ entry = "check_preconditions"
            => /\ pc \in {"adb_reboot", "done"}
               /\ pc = "done" => reboot_calls = 1 /\ exit_status = 1

C6_Witness ==
    /\ entry = "check_preconditions" /\ pc = "done"
    /\ Last(precond_log) = [check |-> "install_marionette", result |-> "Exception"]
    /\ reboot_calls = 1 /\ raised = "SystemExit" /\ exit_status = 1

\* C7: at most one suite process is alive; a suite process is started only
\* after every process started before it has ended and after the restore
\* call of the suite before it has completed; suites are run in the order of
\* the request.
C7_SuitesStrictlySequential ==
    /\ Cardinality(alive) <= 1
    /\ run_calls = SubSeq(suites, 1, Len(run_calls))
    /\ \A p \in 1..Len(trace) :
          trace[p].ev = "start"
          => /\ \A q \in 1..(p - 1) :
                   trace[q].ev = "start"
                   => /\ trace[q].k < trace[p].k
                      /\ \E r \in (q + 1)..(p - 1) :
                            trace[r].ev = "end" /\ trace[r].k = trace[q].k
             /\ trace[p].k > 1
                   => \E r \in 1..(p - 1) :
                         trace[r] = Event("restore", trace[p].k - 1, "ok")

C7_Witness ==
    /\ pc = "proc_wait" /\ idx = 2 /\ alive = {2}
    /\ \E p \in 1..Len(trace) : trace[p] = Event("end", 1, "KeyboardInterrupt")

\* every suite of the request ran, none raised and all reported all-pass
AllSuitesPassed ==
    /\ Len(run_calls) = Len(suites)
    /\ suite_raised = <<>>
    /\ Len(subsuite_results) = Len(suites)
    /\ \A i \in 1..Len(subsuite_results) : subsuite_results[i]

C10_StagingRemovedOnce ==
    /\ rmtree_calls <= 1
    /\ (staging = "removed") = (rmtree_calls = 1)
    /\ rmtree_calls = 1 => pc \in AfterTheLoop
    /\ (pc \in AfterTheLoop /\ idx >= 1) => rmtree_calls = 1

C10_Witness ==
    /\ pc = "done" /\ idx = 1 /\ Len(suites) = 2
    /\ rmtree_calls = 1 /\ staging = "removed"
    /\ \E p \in 1..Len(trace) : trace[p] = Event("restore", 1, "Exception")

\* the LogManager block has been left
LogManagerLeft == entry # "check_preconditions" /\ pc \in {"run_tests_except", "done"}

C13_NoProcessOutlivesRunTest ==
    /\ alive \subseteq {idx}
    /\ alive # {} => pc = "proc_wait"
    /\ \A j \in 1..Len(run_test_log) :
          LET r == run_test_log[j]
          IN  /\ r.out = r.orig
              /\ r.orig # "none"
                    => \E i \in 1..Len(suite_raised) :
                          suite_raised[i] = [k |-> r.k, exc |-> r.orig]
              /\ (r.orig = "none" /\ (idx # r.k \/ pc # "run_suite_results"))
                    => \/ \E i \in 1..Len(zip_log) : zip_log[i].k = r.k
                       \/ \E i \in 1..Len(suite_raised) : suite_raised[i].k = r.k

C13_Witness ==
    /\ pc = "finally" /\ idx = 2 /\ alive = {}
    /\ run_test_log =
          << RunTest(1, "running", "KeyboardInterrupt", "none"),
             RunTest(2, "finished", "none", "Exception") >>
    /\ suite_raised = << [k |-> 1, exc |-> "KeyboardInterrupt"] >>

\* C14: a run_suite call for a suite that has no entry in the configuration
\* starts no process and raises; the error is logged by run_test and counted
\* by run_tests, restore is called for that suite, the finished run has a
\* status that is not 0 and, unless a restore call itself raised, every suite
\* of the request has been run.
C14_UnconfiguredSuiteIsolated ==
    \A c \in 1..Len(run_calls) :
        (\A i \in 1..Len(ConfigSuites) : ConfigSuites[i] # run_calls[c].suite)
        => /\ \A p \in 1..Len(trace) : trace[p].k = c => trace[p].ev = "restore"
           /\ \E j \in 1..Len(run_test_log) :
                 run_test_log[j] = RunTest(c, "unbound", "Exception", "Exception")
           /\ \E j \in 1..Len(suite_raised) :
                 suite_raised[j] = [k |-> c, exc |-> "Exception"]
           /\ error
           /\ (pc # "finally" \/ idx # c)
                 => \E p \in 1..Len(trace) : trace[p].ev = "restore" /\ trace[p].k = c
           /\ pc = "done"
                 => /\ exit_status # 0
                    /\ (\A p \in 1..Len(trace) :
                           trace[p].ev = "restore" => trace[p].res = "ok")
                          => Len(run_calls) = Len(suites)

C14_Witness ==
    /\ pc = "done" /\ raised = "none" /\ exit_status = 1
    /\ args_tests = << <<"suiteC">>, <<"suiteA">> >>
    /\ Len(run_calls) = 2 /\ restore_calls = 2
    /\ suite_raised = << [k |-> 1, exc |-> "Exception"] >>
    /\ trace = << Event("restore", 1, "ok"), Event("start", 2, "ok"),
                  Event("end", 2, "finished"), Event("restore", 2, "ok") >>

\* C12: when the snapshot has been acquired the staged copy of every path of
\* the backup set is the device's copy; and each time restore has completed,
\* after the first suite and after every later one, every path on the device
\* has the content it had when the snapshot was acquired, whatever the suite
\* did to it (changed it, deleted it, added members to a directory).
C12_RestoreRoundTrip ==
    (entry \in DeviceBackupClasses /\ pc = "Backup_suite")
    => /\ backup.paths = Range(backup_dirs) \cup Range(backup_files)
       /\ backup.files = device0.files /\ backup.dirs = device0.dirs
       /\ device = device0
       /\ restore_calls >= 1 => dev_ops = RestoreOps(entry)

C12_Witness ==
    /\ entry = "harness.DeviceBackup" /\ pc = "Backup_suite"
    /\ restore_calls = 2 /\ dev_ops = RestoreOps(entry)
    /\ device.files["/system/etc/hosts"] = "X"
    /\ device.dirs["/data/local"].files = [n \in Names |-> "X"]
    /\ device.dirs["/data/b2g/mozilla"] = [NoDir EXCEPT !.exists = TRUE]

\* calls of func and of the callback so far
Evals == Cardinality({ p \in 1..Len(pw_log) : pw_log[p].ev = "func" })
AfterCalls == Cardinality({ p \in 1..Len(pw_log) : pw_log[p].ev = "after_first" })

\* the least N such that the predicate is truthy within N polling intervals
\* of the call
WithinIntervals ==
    (true_at - start_time + polling_interval - 1) \div polling_interval

\* a finished plain poll_wait call whose predicate is truthy within N
\* polling intervals, the timeout being longer than N intervals
TruthyInTime ==
    /\ entry = "poll_wait" /\ pc = "done" /\ true_at >= 0
    /\ timeout > WithinIntervals * polling_interval

\* C15: for a predicate that is truthy within N polling intervals of the
\* call, the timeout being longer than N intervals, poll_wait returns after
\* at most N + 1 evaluations and, when a callback is given, after exactly one
\* call of it.
C15_ReturnsWithinN ==
    TruthyInTime
    => /\ raised = "none"
       /\ Evals <= WithinIntervals + 1
       /\ after_first # "none" => AfterCalls = 1

\* C15, amended: under the same premise poll_wait makes at most N + 1
\* evaluations; a callback that is given is called once when the first
\* evaluation was falsy and not at all when it was truthy; and poll_wait
\* returns when no poll took longer than a polling interval.
C15_ReturnsWithinN_Amended ==
    TruthyInTime
    => /\ Evals <= WithinIntervals + 1
       /\ after_first # "none"
             => AfterCalls = (IF pw_log[2] = Ev("func", "falsy") THEN 1 ELSE 0)
       /\ ~overran => raised = "none"

C15_Witness ==
    /\ TruthyInTime /\ raised = "none" /\ ~overran
    /\ polling_interval = 1 /\ timeout = 3 /\ true_at - start_time = 2
    /\ after_first = "callback" /\ Evals = 3 /\ AfterCalls = 1

\* C16: the callback is called only right after the first evaluation of a
\* poll_wait call, and only when that evaluation was falsy: never before it,
\* never after a later one, so at most once.
C16_AfterFirstOneShot ==
    \A p \in 1..Len(pw_log) :
        pw_log[p].ev = "after_first"
        => /\ p >= 3
           /\ pw_log[p - 1] = Ev("func", "falsy")
           /\ pw_log[p - 2].ev = "poll_wait"

C16_Witness ==
    /\ entry = "poll_wait" /\ pc = "done"
    /\ pw_log = << Ev("poll_wait", "predicate"), Ev("func", "falsy"),
                   Ev("after_first", "callback"), Ev("func", "falsy"),
                   Ev("func", "truthy") >>

\* a finished plain poll_wait call in which func was never truthy
NeverTruthy ==
    /\ entry = "poll_wait" /\ pc = "done"
    /\ \A p \in 1..Len(pw_log) : pw_log[p] # Ev("func", "truthy")

\* C17: a poll_wait call whose predicate is never truthy raises WaitTimeout,
\* at least timeout and less than timeout + polling_interval after it began.
C17_TimeoutWindow ==
    NeverTruthy
    => /\ raised = "WaitTimeout"
       /\ now - start_time >= timeout
       /\ now - start_time < timeout + polling_interval

\* C17, amended: such a call raises WaitTimeout at least timeout after it
\* began, and less than timeout + polling_interval after it began when no
\* poll took longer than a polling interval.
C17_TimeoutWindow_Amended ==
    NeverTruthy
    => /\ raised = "WaitTimeout"
       /\ now - start_time >= timeout
       /\ ~overran => now - start_time < timeout + polling_interval

C17_Witness ==
    /\ NeverTruthy /\ raised = "WaitTimeout" /\ ~overran /\ true_at = -1
    /\ timeout = 3 /\ polling_interval = 2 /\ now - start_time = 4
    /\ Evals = 2

\* the shell command at position p of pw_log was sent by the callback of a
\* poll_wait call, right after that call's first evaluation, which was falsy
SentAsCallback(p) ==
    /\ p >= 4
    /\ pw_log[p - 1] = Ev("after_first", pw_log[p].arg)
    /\ pw_log[p - 2] = Ev("func", "falsy")
    /\ pw_log[p - 3].ev = "poll_wait"

\* C18: start, stop, restart and reboot send their shell command only as the
\* callback of poll_wait, never before a poll.
C18_CommandOnlyAsCallback ==
    \A p \in 1..Len(pw_log) : pw_log[p].ev = "shell" => SentAsCallback(p)

\* C18, amended: reboot, and start called with wait, send their command only
\* as the callback of poll_wait; stop sends "stop b2g" before its first poll
\* (in restart too, whose start follows the return of stop's poll_wait);
\* start called without wait sends "start b2g" with no poll of its own.
C18_CommandOnlyAsCallback_Amended ==
    \A p \in 1..Len(pw_log) :
        pw_log[p].ev = "shell"
        => CASE pw_log[p].arg = "stop b2g" ->
                  /\ p = 1 /\ entry \in {"ADBB2G.stop", "ADBB2G.restart"}
             [] pw_log[p].arg = "reboot" ->
                  /\ entry = "ADBB2G.reboot" /\ SentAsCallback(p)
             [] pw_log[p].arg = "start b2g" ->
                  /\ entry \in {"ADBB2G.start", "ADBB2G.restart"}
                  /\ IF wait THEN SentAsCallback(p)
                     ELSE /\ p = Len(pw_log)
                          /\ p = 1 \/ pw_log[p - 1] = Ev("func", "truthy")

C18_Witness ==
    /\ entry = "ADBB2G.restart" /\ pc = "done" /\ raised = "none" /\ wait
    /\ pw_log = << Ev("shell", "stop b2g"), Ev("poll_wait", "b2g_stopped"),
                   Ev("func", "truthy"), Ev("poll_wait", "prefs_modified"),
                   Ev("func", "falsy"), Ev("after_first", "start b2g"),
                   Ev("shell", "start b2g"), Ev("func", "truthy") >>

\* check_server has done what for port, with result res
Probed(what, port, res) ==
    \E p \in 1..Len(srv_log) : srv_log[p] = Probe(what, port, res)

C21_ProbeServerStopped ==
    entry \in CheckServers
    => /\ Cardinality(servers) <= 1
       /\ pc = "done" => servers = {}

\* C22: when a run of run_tests that has created the archive has failed, by
\* a failed precondition, a failed suite or an error caught at top level,
\* and has ended, the 'Results saved in' line has been written.
C22_FailedRunReportsArchive ==
    (entry \in {"run_tests", "suite_loop"} /\ pc = "done" /\ output_zipfile
       /\ (PreconditionFailed \/ error))
    => reported

\* build_command has returned
Built == entry = "build_command" /\ pc = "done" /\ raised = "none"

\* where the name of group number i begins in the joined group names
RECURSIVE GroupOffset(_, _)
GroupOffset(gs, i) ==
    IF i = 1 THEN 0 ELSE GroupOffset(gs, i - 1) + Len(gs[i - 1]) + 1

\* C23: the vector build_command returns is the executable, the
\* --log-raw= argument with <temp_dir>/<suite>_structured<groups>.log, the
\* groups joined by "_" with every "/" turned into "-", then --log-mach=-,
\* one --include= per group in request order, the run_args and then the
\* common_args with their placeholders filled in; the output file list is
\* the raw log path followed by the filled-in extra_files.
C23_ArgumentVector ==
    Built =>
      LET suite_opts == config.suites[cmd_suite]
          n == Len(cmd_groups)
          run_args == get(suite_opts, "run_args")
          common_args == get(suite_opts, "common_args")
          extra_files == get(suite_opts, "extra_files")
          filled(item) ==
              CASE item = <<"--out=", "%(temp_dir)s">> -> <<"--out=">> \o temp_dir
                [] item = <<"--dir=", "%(temp_dir)s">> -> <<"--dir=">> \o temp_dir
                [] item = <<"--version=", "%(version)s">> -> <<"--version=", "2.0">>
                [] item = <<"%(temp_dir)s", "/", "extra.log">> ->
                       temp_dir \o <<"/", "extra.log">>
                [] OTHER -> item
          groups_part ==
              SubSeq(log_name, Len(temp_dir) + 4, Len(log_name) - 1)
      IN  /\ Len(cmd) = 3 + n + Len(run_args) + Len(common_args)
          /\ cmd[1] = suite_opts.cmd
          /\ cmd[2] = <<"--log-raw=">> \o log_name
          /\ log_name = temp_dir \o <<"/">> \o cmd_suite \o <<"_structured">>
                          \o groups_part \o <<".log">>
          /\ Len(groups_part) = IF n = 0 THEN 0
                                ELSE GroupOffset(cmd_groups, n) + Len(cmd_groups[n])
          /\ \A i \in 1..n :
                /\ i > 1 => groups_part[GroupOffset(cmd_groups, i)] = "_"
                /\ \A k \in 1..Len(cmd_groups[i]) :
                      groups_part[GroupOffset(cmd_groups, i) + k] =
                         IF cmd_groups[i][k] = "/" THEN "-" ELSE cmd_groups[i][k]
          /\ cmd[3] = <<"--log-mach=-">>
          /\ \A i \in 1..n : cmd[3 + i] = <<"--include=">> \o cmd_groups[i]
          /\ \A i \in 1..Len(run_args) : cmd[3 + n + i] = filled(run_args[i])
          /\ \A i \in 1..Len(common_args) :
                cmd[3 + n + Len(run_args) + i] = filled(common_args[i])
          /\ output_files = << log_name >>
               \o [i \in 1..Len(extra_files) |-> filled(extra_files[i])]
          /\ (config = ExampleConfig /\ cmd_groups = << <<"g1">>, <<"g2">> >>)
             => cmd = << <<"run_x">>,
                         <<"--log-raw=">> \o temp_dir
                            \o <<"/">> \o cmd_suite
                            \o <<"_structured", "g1", "_", "g2", ".log">>,
                         <<"--log-mach=-">>,
                         <<"--include=", "g1">>, <<"--include=", "g2">>,
                         <<"--out=">> \o temp_dir >>

C23_Witness ==
    /\ Built /\ config = ExampleConfig
    /\ cmd_groups = << <<"g1">>, <<"g2">> >>
    /\ Len(cmd) = 6 /\ Len(output_files) = 1

\* iter_suites has run: the loop over its pairs was entered
Iterated == entry = "suite_loop" /\ idx >= 1

\* the suite a token names and the groups it names
TokenSuite(t) == IF Len(t) = 1 THEN t ELSE << t[1] >>
TokenGroups(t) == IF Len(t) = 1 THEN <<>> ELSE << << t[3] >> >>

\* C24: without tokens iter_suites yields every configured suite, in the
\* order of the configuration, each with an empty group list; for the one
\* token 'suite' it yields that suite with an empty group list, for the one
\* token 'suite:group' that suite with that group alone.
C24_TokenMapping ==
    Iterated =>
      /\ args_tests = <<>>
           => suites = [i \in 1..Len(ConfigSuites) |->
                          [suite |-> ConfigSuites[i], groups |-> <<>>]]
      /\ Len(args_tests) = 1
           => suites = << [suite |-> TokenSuite(args_tests[1]),
                           groups |-> TokenGroups(args_tests[1])] >>

C24_Witness ==
    /\ Iterated /\ pc = "done"
    /\ args_tests = << <<"suiteB", ":", "group1">> >>
    /\ run_calls = << [suite |-> <<"suiteB">>, groups |-> << <<"group1">> >>] >>

\* position in the request of the first token that names suite s
FirstToken(s) ==
    CHOOSE p \in 1..Len(args_tests) :
        /\ TokenSuite(args_tests[p]) = s
        /\ \A q \in 1..(p - 1) : TokenSuite(args_tests[q]) # s

\* the groups the request's tokens name for suite s, in request order
RECURSIVE RequestedGroups(_, _)
RequestedGroups(s, ts) ==
    IF ts = <<>> THEN <<>>
    ELSE (IF TokenSuite(Head(ts)) = s THEN TokenGroups(Head(ts)) ELSE <<>>)
           \o RequestedGroups(s, Tail(ts))

Called(q, op, path) == dev_ops[q] = DeviceCall(op, path)

\* C25: in a restore the remount comes before every removal and push, a
\* file is removed before it is pushed, every file has been removed and
\* pushed before the first call on a directory, and a directory is removed
\* before it is pushed.
C25_RestoreOrder ==
    entry \in DeviceBackupClasses =>
      \A p \in 1..Len(dev_ops) :
        /\ dev_ops[p].op \in {"removeFile", "pushFile", "removeDir", "pushDir"}
             => \E q \in 1..(p - 1) : Called(q, "remount", "")
        /\ dev_ops[p].op = "pushFile"
             => \E q \in 1..(p - 1) : Called(q, "removeFile", dev_ops[p].path)
        /\ dev_ops[p].op = "pushDir"
             => \E q \in 1..(p - 1) : Called(q, "removeDir", dev_ops[p].path)
        /\ dev_ops[p].op \in {"removeDir", "pushDir"}
             => /\ \A q \in 1..Len(dev_ops) :
                      dev_ops[q].op \in {"removeFile", "pushFile"} => q < p
                /\ \A i \in 1..Len(backup_files) :
                      \E q, r \in 1..(p - 1) :
                         /\ q < r
                         /\ Called(q, "removeFile", backup_files[i])
                         /\ Called(r, "pushFile", backup_files[i])

C25_Witness ==
    /\ entry = "adb.DeviceBackup" /\ pc = "Backup_suite" /\ restore_calls = 1
    /\ Len(dev_ops) = 7
    /\ Called(2, "removeFile", "/system/etc/hosts")
    /\ Called(7, "pushDir", "/data/b2g/mozilla")

\* C26: the poll of wait_for_device_ready is truthy only after an earlier,
\* falsy poll, when two modification times have been recorded and the later
\* differs from the first, and after the after_first command, when there is
\* one, has been sent; when the prefs file is never modified the call ends
\* only by WaitTimeout.
C26_ReadyOnlyAfterChange ==
    \A s \in 1..Len(pw_log) :
       pw_log[s] = Ev("poll_wait", "prefs_modified")
       => /\ \A p \in (s + 1)..Len(pw_log) :
                pw_log[p] = Ev("func", "truthy")
                => /\ \E q \in (s + 1)..(p - 1) : pw_log[q] = Ev("func", "falsy")
                   /\ Len(times) = 2 /\ times[2] # times[1]
                   /\ after_first # "none"
                        => \E q \in (s + 1)..(p - 1) :
                              pw_log[q] = Ev("shell", after_first)
          /\ (pc = "done" /\ true_at = -1) => raised = "WaitTimeout"

C26_Witness ==
    /\ entry = "ADBB2G.reboot" /\ pc = "done" /\ raised = "none"
    /\ times = << 0, 1 >>
    /\ pw_log = << Ev("poll_wait", "prefs_modified"), Ev("func", "falsy"),
                   Ev("after_first", "reboot"), Ev("shell", "reboot"),
                   Ev("func", "falsy"), Ev("func", "truthy") >>

\* C27: once a device.restore() call has raised, no suite is started and no
\* restore is called any more; the staging directory is removed when the
\* DeviceBackup block is left and the archive is closed when the LogManager
\* block is left; and after an error of restore run_tests returns 1.
C27_RestoreFailureEndsRun ==
    \A p \in 1..Len(trace) :
       (trace[p].ev = "restore" /\ trace[p].res # "ok")
       => /\ p = Len(trace)
          /\ Len(run_calls) = trace[p].k
          /\ pc \in {"DeviceBackup_exit"} \cup AfterTheLoop
          /\ pc \in AfterTheLoop => staging = "removed" /\ rmtree_calls = 1
          /\ pc \in {"run_tests_except", "done"}
               => zip_state = "closed" /\ Last(zip_log) = Closed
          /\ (pc = "done" /\ trace[p].res = "Exception")
               => raised = "none" /\ error /\ exit_status = 1

C27_Witness ==
    /\ pc = "done" /\ Len(suites) = 2 /\ Len(run_calls) = 1
    /\ Last(trace) = Event("restore", 1, "Exception")
    /\ staging = "removed" /\ zip_state = "closed"
    /\ raised = "none" /\ exit_status = 1

\* C28: when a pull has failed during the acquisition of the snapshot, the
\* error has left the DeviceBackup, no suite has run and no restore was
\* called, and the staging directory is not left on the host.
C28_FailedAcquisitionLeavesNothing ==
    (entry \in DeviceBackupClasses /\ pc = "done"
       /\ backup.paths # Range(PullOrder))
    => /\ raised # "none"
       /\ restore_calls = 0
       /\ staging # "present"

\* before entry p of pw_log a poll of b2g_stopped was truthy: b2g was seen
\* to be absent from the process list
StopObserved(p) ==
    \E s, q \in 1..(p - 1) :
       /\ s < q
       /\ pw_log[s] = Ev("poll_wait", "b2g_stopped")
       /\ pw_log[q] = Ev("func", "truthy")
       /\ \A r \in (s + 1)..(q - 1) : pw_log[r].ev # "poll_wait"

\* C30: restart sends "start b2g" only after a poll of stop has seen b2g
\* absent from the process list; when restart has ended and no poll of stop
\* saw that, it has ended by WaitTimeout and "start b2g" was not sent.
C30_StartOnlyAfterStopObserved ==
    entry = "ADBB2G.restart" =>
      /\ \A p \in 1..Len(pw_log) :
            pw_log[p] = Ev("shell", "start b2g") => StopObserved(p)
      /\ (pc = "done" /\ ~StopObserved(Len(pw_log) + 1))
            => /\ raised = "WaitTimeout"
               /\ \A p \in 1..Len(pw_log) : pw_log[p] # Ev("shell", "start b2g")
               /\ \A p \in 1..Len(pw_log) : pw_log[p] # Ev("poll_wait", "prefs_modified")

C30_Witness ==
    /\ entry = "ADBB2G.restart" /\ pc = "done" /\ raised = "none" /\ ~wait
    /\ pw_log = << Ev("shell", "stop b2g"), Ev("poll_wait", "b2g_stopped"),
                   Ev("func", "falsy"), Ev("func", "truthy"),
                   Ev("shell", "start b2g") >>

=============================================================================
